---- MODULE Spec2Model ----
(***************************************************************************)
(* Model of src/modules/playground/lib/path-to-json.ts: the template       *)
(* directory scanner (scanTemplateDirectory / processDirectory) and the    *)
(* JSON persistence pair (saveTemplateStructureToJson /                    *)
(* readTemplateStructureFromJson).                                         *)
(*                                                                         *)
(* A JavaScript string is a sequence of one-character strings, so that     *)
(* path parsing, pattern matching and JSON text are computed character by  *)
(* character.  An array is a sequence, an object is a record.              *)
(***************************************************************************)
EXTENDS Integers, Sequences, FiniteSets, TLC

VARIABLES
    fs,             \* the file system the scanner reads: a tree of dir/file/link nodes
    argPath,        \* the caller's first argument to scan and save
    argOptions,     \* the caller's ScanOptions object
    faults,         \* the I/O operations of the scanner that fail: {[op, path]}
    doc,            \* the document at outputPath / inputPath
    regs,           \* lastIndex of every caller-owned RegExp object (by id)
    EMPTY_TEMPLATE, \* the module-level object of lines 33-36 (one object, shared)
    handedOut,      \* TRUE once a reference to EMPTY_TEMPLATE has been returned
    last            \* the most recent invocation: its inputs, its result, the I/O it did

vars == <<fs, argPath, argOptions, faults, doc, regs, EMPTY_TEMPLATE, handedOut, last>>

\* ------------------------------------------------------------------ bounds

\* at most this many I/O operations fail during one invocation
MaxFaults == 1
\* at most this many items a caller pushes onto a Folder it was handed
MaxPush == 1

\* ------------------------------------------------------- string primitives

RECURSIVE IndexOfFrom(_, _, _)
\* 0-based index of the leftmost occurrence of sub in s at position >= from, or -1
IndexOfFrom(s, sub, from) ==
    IF from + Len(sub) > Len(s) THEN -1
    ELSE IF SubSeq(s, from + 1, from + Len(sub)) = sub THEN from
    ELSE IndexOfFrom(s, sub, from + 1)

StartsWith(s, p) == Len(s) >= Len(p) /\ SubSeq(s, 1, Len(p)) = p
EndsWith(s, p) == Len(s) >= Len(p) /\ SubSeq(s, Len(s) - Len(p) + 1, Len(s)) = p

\* Array.prototype.includes
Includes(arr, x) == \E i \in DOMAIN arr : arr[i] = x

\* String.prototype.replace(pattern, replacement) with a string pattern:
\* only the first occurrence is replaced
StringReplace(s, pat, rep) ==
    LET at == IndexOfFrom(s, pat, 0)
    IN IF at = -1 THEN s
       ELSE SubSeq(s, 1, at) \o rep \o SubSeq(s, at + Len(pat) + 1, Len(s))

RECURSIVE ToDigits(_)
\* the decimal text of a non-negative integer, as a template literal prints it
ToDigits(n) ==
    LET d == <<"0", "1", "2", "3", "4", "5", "6", "7", "8", "9">>
    IN IF n < 10 THEN <<d[n + 1]>> ELSE ToDigits(n \div 10) \o <<d[(n % 10) + 1]>>

\* ----------------------------------------------------------- path (POSIX)

RECURSIVE StripTrailingSlashes(_)
StripTrailingSlashes(p) ==
    IF Len(p) > 0 /\ p[Len(p)] = "/" THEN StripTrailingSlashes(SubSeq(p, 1, Len(p) - 1))
    ELSE p

RECURSIVE LastSlash(_, _)
\* 1-based position of the last "/" of p at or before i, 0 when there is none
LastSlash(p, i) == IF i = 0 THEN 0 ELSE IF p[i] = "/" THEN i ELSE LastSlash(p, i - 1)

\* a basename that keeps trailing separators: "/t/" has the base ""
pathBasename_NoStrip(p) == SubSeq(p, LastSlash(p, Len(p)) + 1, Len(p))

\* path.basename(p): trailing separators are dropped, then everything after
\* the last separator is returned
pathBasename(p) ==
    LET q == StripTrailingSlashes(p)
    IN SubSeq(q, LastSlash(q, Len(q)) + 1, Len(q))

RECURSIVE LastDot(_, _)
LastDot(s, i) == IF i = 0 THEN 0 ELSE IF s[i] = "." THEN i ELSE LastDot(s, i - 1)

\* path.parse(base) for a base name without separators: {name, ext}.
\* ext starts at the last "." unless that dot is the first character
\* (preDotState 0) or the base is ".."
pathParse(base) ==
    LET startDot == LastDot(base, Len(base))
        noExt == \/ startDot = 0
                 \/ startDot = 1
                 \/ (base = <<".", ".">>)
    IN IF noExt THEN [name |-> base, ext |-> <<>>]
       ELSE [name |-> SubSeq(base, 1, startDot - 1),
             ext |-> SubSeq(base, startDot, Len(base))]

RECURSIVE Split(_)
\* the non-empty segments of a path
Split(p) ==
    IF p = <<>> THEN <<>>
    ELSE LET k == IndexOfFrom(p, <<"/">>, 0)
         IN IF k = -1 THEN <<p>>
            ELSE IF k = 0 THEN Split(Tail(p))
            ELSE <<SubSeq(p, 1, k)>> \o Split(SubSeq(p, k + 2, Len(p)))

\* path.join(dir, name) for a name that is a single segment: one separator
\* between them, duplicate and trailing separators of dir normalised away
pathJoin(dir, name) ==
    LET d == StripTrailingSlashes(dir)
    IN d \o <<"/">> \o name

\* path.dirname(p) is only used to create the output directory (lines 160, 169)

\* ------------------------------------------------------------------ RegExp

\* A RegExp object: re names the expression, lit is the literal text of a
\* user expression /lit/ or /lit/g, id identifies the object (0: a literal
\* created inside the call, never shared).
DefaultPattern(re) == [re |-> re, lit |-> <<>>, global |-> FALSE, id |-> 0]

\* The match of p in s that starts at the smallest 0-based position >= from:
\* the 0-based end of that match, or -1 when there is none.
RegExpExec(p, s, from) ==
    CASE p.re = "swp" ->        \* /^\..+\.swp$/
            IF /\ from = 0
               /\ Len(s) >= 6
               /\ s[1] = "."
               /\ EndsWith(s, <<".", "s", "w", "p">>)
               /\ \A i \in 2..(Len(s) - 4) : s[i] # "\n"
            THEN Len(s) ELSE -1
      [] p.re = "dothash" ->    \* /^\.#/
            IF from = 0 /\ StartsWith(s, <<".", "#">>) THEN 2 ELSE -1
      [] p.re = "tilde" ->      \* /~$/
            IF Len(s) >= 1 /\ s[Len(s)] = "~" /\ from <= Len(s) - 1 THEN Len(s) ELSE -1
      [] OTHER ->               \* /lit/
            LET at == IndexOfFrom(s, p.lit, from)
            IN IF at = -1 THEN -1 ELSE at + Len(p.lit)

\* RegExp.prototype.test(s) on an object whose lastIndex is li: a global
\* expression starts at lastIndex and stores the end of the match (0 on
\* failure); any other expression starts at 0 and leaves lastIndex alone
RegExpTest(p, s, li) ==
    IF ~p.global THEN [res |-> RegExpExec(p, s, 0) # -1, lastIndex |-> li]
    ELSE IF li > Len(s) THEN [res |-> FALSE, lastIndex |-> 0]
    ELSE LET e == RegExpExec(p, s, li)
         IN IF e = -1 THEN [res |-> FALSE, lastIndex |-> 0]
            ELSE [res |-> TRUE, lastIndex |-> e]

RECURSIVE SomeTest(_, _, _, _)
\* patterns.some((p) => p.test(s)), from the i-th pattern on: the patterns
\* are tested in order and the first match ends the iteration.  r is the
\* lastIndex of the caller-owned objects.
SomeTest(patterns, i, s, r) ==
    IF i > Len(patterns) THEN [res |-> FALSE, regs |-> r]
    ELSE LET p == patterns[i]
             t == RegExpTest(p, s, IF p.id \in DOMAIN r THEN r[p.id] ELSE 0)
             r2 == IF p.id \in DOMAIN r THEN [r EXCEPT ![p.id] = t.lastIndex] ELSE r
         IN IF t.res THEN [res |-> TRUE, regs |-> r2]
            ELSE SomeTest(patterns, i + 1, s, r2)

\* ------------------------------------------------------------- file system

Dir(name, entries) == [type |-> "dir", name |-> name, entries |-> entries]
File(name, size, data) == [type |-> "file", name |-> name, size |-> size, data |-> data]
Link(name) == [type |-> "link", name |-> name]
Missing == [type |-> "none"]

RECURSIVE Lookup(_, _)
\* the node a sequence of segments names below node
Lookup(node, segs) ==
    IF segs = <<>> THEN node
    ELSE IF node.type # "dir" THEN Missing
    ELSE IF \E i \in DOMAIN node.entries : node.entries[i].name = Head(segs)
    THEN LET i == CHOOSE j \in DOMAIN node.entries : node.entries[j].name = Head(segs)
         IN Lookup(node.entries[i], Tail(segs))
    ELSE Missing

\* The world one invocation runs in: the file system, the I/O operations
\* that fail during it (faults), the RegExp objects' lastIndex, and the log
\* of the I/O operations it attempted.
\* an operation is identified by the node its path resolves to
Io(op, path) == [op |-> op, path |-> Split(path)]
Fails(w, op, path) == Io(op, path) \in w.faults
Logged(w, op, path) == [w EXCEPT !.io = @ \cup {Io(op, path)}]

\* fs.promises.stat(path): throws when the path names nothing or the call fails
StatThrows(w, path) ==
    Fails(w, "stat", path) \/ Lookup(w.fs, Split(path)).type = "none"
\* fs.promises.readdir(path): throws when path is no directory or the call fails
ReaddirThrows(w, path) ==
    Fails(w, "readdir", path) \/ Lookup(w.fs, Split(path)).type # "dir"
\* fs.promises.readFile(path, "utf8")
ReadFileThrows(w, path) ==
    Fails(w, "readFile", path) \/ Lookup(w.fs, Split(path)).type # "file"

\* ----------------------------------------------------------------- scanner

TemplateFile(filename, fileExtension, content) ==
    [filename |-> filename, fileExtension |-> fileExtension, content |-> content]
TemplateFolder(folderName, items) == [folderName |-> folderName, items |-> items]

IsFile(n) == DOMAIN n = {"filename", "fileExtension", "content"}
IsFolder(n) == DOMAIN n = {"folderName", "items"}

\* lines 33-36
EmptyTemplateValue == TemplateFolder(<<"e", "m", "p", "t", "y", "-", "t", "e", "m", "p", "l", "a", "t", "e">>, <<>>)

\* lines 45-70
defaultIgnoreFiles ==
    << <<"p", "a", "c", "k", "a", "g", "e", "-", "l", "o", "c", "k", ".", "j", "s", "o", "n">>, <<"y", "a", "r", "n", ".", "l", "o", "c", "k">>, <<".", "D", "S", "_", "S", "t", "o", "r", "e">>, <<"t", "h", "u", "m", "b", "s", ".", "d", "b">>, <<".", "g", "i", "t", "i", "g", "n", "o", "r", "e">>,
       <<".", "n", "p", "m", "r", "c">>, <<".", "y", "a", "r", "n", "r", "c">>, <<".", "e", "n", "v">>, <<".", "e", "n", "v", ".", "l", "o", "c", "a", "l">>, <<".", "e", "n", "v", ".", "d", "e", "v", "e", "l", "o", "p", "m", "e", "n", "t">>,
       <<".", "e", "n", "v", ".", "p", "r", "o", "d", "u", "c", "t", "i", "o", "n">> >>
defaultIgnoreFolders ==
    << <<"n", "o", "d", "e", "_", "m", "o", "d", "u", "l", "e", "s">>, <<".", "g", "i", "t">>, <<".", "v", "s", "c", "o", "d", "e">>, <<".", "i", "d", "e", "a">>, <<"d", "i", "s", "t">>, <<"b", "u", "i", "l", "d">>, <<"c", "o", "v", "e", "r", "a", "g", "e">> >>
defaultIgnorePatterns ==
    << DefaultPattern("swp"), DefaultPattern("dothash"), DefaultPattern("tilde") >>
defaultMaxFileSize == 1024 * 1024

\* lines 72-80.  An options object always carries the three lists (an absent
\* list and an empty one merge alike through `|| []`); maxFileSize is a
\* field only when the caller supplied it.
mergedOptions(options) ==
    [ignoreFiles |-> defaultIgnoreFiles \o options.ignoreFiles,
     ignoreFolders |-> defaultIgnoreFolders \o options.ignoreFolders,
     ignorePatterns |-> defaultIgnorePatterns \o options.ignorePatterns,
     maxFileSize |-> IF "maxFileSize" \in DOMAIN options
                     THEN options.maxFileSize
                     ELSE defaultMaxFileSize]

\* line 124
TooLarge(size) == <<"[", "F", "i", "l", "e", " ", "t", "o", "o", " ", "l", "a", "r", "g", "e", ":", " ">> \o ToDigits(size) \o <<" ", "b", "y", "t", "e", "s", "]">>

\* lines 122-125: the condition under which the placeholder replaces the content
UsePlaceholder(options, size) ==
    options.maxFileSize # 0 /\ size > options.maxFileSize

\* lines 118-139: one retained file entry
processFile(entryName, entryPath, options, w) ==
    LET parsed == pathParse(entryName)
        node(content) == TemplateFile(parsed.name,
                                      StringReplace(parsed.ext, <<".">>, <<>>),
                                      content)
        w1 == Logged(w, "stat", entryPath)
    IN IF StatThrows(w, entryPath) THEN [item |-> node(<<>>), w |-> w1]
       ELSE LET stats == Lookup(w.fs, Split(entryPath))
            IN IF UsePlaceholder(options, stats.size)
               THEN [item |-> node(TooLarge(stats.size)), w |-> w1]
               ELSE LET w2 == Logged(w1, "readFile", entryPath)
                    IN IF ReadFileThrows(w, entryPath)
                       THEN [item |-> node(<<>>), w |-> w2]
                       ELSE [item |-> node(stats.data), w |-> w2]

\* the user's ignoreFolders never reach the check
FolderIgnored_DefaultsOnly(options, entryName) == Includes(defaultIgnoreFolders, entryName)

\* line 112
FolderIgnored(options, entryName) == Includes(options.ignoreFolders, entryName)
\* line 115
FileIgnored(options, entryName) == Includes(options.ignoreFiles, entryName)

RECURSIVE processDirectory(_, _, _, _)
RECURSIVE processEntries(_, _, _, _, _)

\* lines 107-141: the loop over the listing, from the i-th entry on;
\* acc = [items, w] is what the iterations before it built
processEntries(entries, i, folderPath, options, acc) ==
    IF i > Len(entries) THEN acc
    ELSE
    LET entry == entries[i]
        entryName == entry.name
        entryPath == pathJoin(folderPath, entryName)
    IN  IF entry.type = "dir"
        THEN IF FolderIgnored(options, entryName)
             THEN processEntries(entries, i + 1, folderPath, options, acc)
             ELSE LET sub == processDirectory(entryName, entryPath, options, acc.w)
                  IN processEntries(entries, i + 1, folderPath, options,
                        [items |-> Append(acc.items, sub.folder), w |-> sub.w])
        ELSE IF entry.type = "file"
        THEN IF FileIgnored(options, entryName)
             THEN processEntries(entries, i + 1, folderPath, options, acc)
             ELSE LET m == SomeTest(options.ignorePatterns, 1, entryName, acc.w.regs)
                      w1 == [acc.w EXCEPT !.regs = m.regs]
                  IN IF m.res
                     THEN processEntries(entries, i + 1, folderPath, options,
                                         [acc EXCEPT !.w = w1])
                     ELSE LET f == processFile(entryName, entryPath, options, w1)
                          IN processEntries(entries, i + 1, folderPath, options,
                                [items |-> Append(acc.items, f.item), w |-> f.w])
        ELSE processEntries(entries, i + 1, folderPath, options, acc)

\* lines 97-147
processDirectory(folderName, folderPath, options, w) ==
    LET w1 == Logged(w, "readdir", folderPath)
    IN IF ReaddirThrows(w, folderPath)
       THEN [folder |-> TemplateFolder(folderName, <<>>), w |-> w1]
       ELSE LET entries == Lookup(w.fs, Split(folderPath)).entries
                done == processEntries(entries, 1, folderPath, options,
                                       [items |-> <<>>, w |-> w1])
            IN [folder |-> TemplateFolder(folderName, done.items), w |-> done.w]

\* lines 41-92.  The result is a reference: to the shared EMPTY_TEMPLATE
\* object, or to the Folder object processDirectory has just built.
scanTemplateDirectory(templatePath, options, w) ==
    LET merged == mergedOptions(options)
        w1 == Logged(w, "stat", templatePath)
    IN IF StatThrows(w, templatePath)
       THEN [ref |-> "EMPTY_TEMPLATE", w |-> w1]
       ELSE IF Lookup(w.fs, Split(templatePath)).type # "dir"
       THEN [ref |-> "EMPTY_TEMPLATE", w |-> w1]
       ELSE LET r == processDirectory(pathBasename(templatePath), templatePath, merged, w1)
            IN [ref |-> "fresh", folder |-> r.folder, w |-> r.w]

\* -------------------------------------------------------------------- JSON

RECURSIVE Escape(_)
\* the body of a JSON string literal: quote, backslash and line feed escaped
Escape(s) ==
    IF s = <<>> THEN <<>>
    ELSE (CASE Head(s) = "\"" -> <<"\\", "\"">>
            [] Head(s) = "\\" -> <<"\\", "\\">>
            [] Head(s) = "\n" -> <<"\\", "n">>
            [] OTHER -> <<Head(s)>>) \o Escape(Tail(s))

\* a string literal written without escaping
Quote_Unescaped(s) == <<"\"">> \o s \o <<"\"">>

Quote(s) == <<"\"">> \o Escape(s) \o <<"\"">>

RECURSIVE Spaces(_)
Spaces(n) == IF n = 0 THEN <<>> ELSE <<" ">> \o Spaces(n - 1)
NewLine(ind) == <<"\n">> \o Spaces(ind)

RECURSIVE StringifyNode(_, _)
RECURSIVE StringifyItems(_, _, _)

\* the elements of a non-empty array from the i-th on, one per line
StringifyItems(items, i, ind) ==
    StringifyNode(items[i], ind)
    \o (IF i = Len(items) THEN <<>>
        ELSE <<",">> \o NewLine(ind) \o StringifyItems(items, i + 1, ind))

\* JSON.stringify(node, null, 2) of a node that sits at indentation ind:
\* the properties in insertion order, two more spaces per level, "[]" for
\* an empty array
StringifyNode(n, ind) ==
    LET key(k) == NewLine(ind + 2) \o Quote(k) \o <<":", " ">>
    IN IF IsFolder(n)
       THEN <<"{">> \o key(<<"f", "o", "l", "d", "e", "r", "N", "a", "m", "e">>) \o Quote(n.folderName) \o <<",">>
            \o key(<<"i", "t", "e", "m", "s">>)
            \o (IF n.items = <<>> THEN <<"[", "]">>
                ELSE <<"[">> \o NewLine(ind + 4)
                     \o StringifyItems(n.items, 1, ind + 4)
                     \o NewLine(ind + 2) \o <<"]">>)
            \o NewLine(ind) \o <<"}">>
       ELSE <<"{">> \o key(<<"f", "i", "l", "e", "n", "a", "m", "e">>) \o Quote(n.filename) \o <<",">>
            \o key(<<"f", "i", "l", "e", "E", "x", "t", "e", "n", "s", "i", "o", "n">>) \o Quote(n.fileExtension) \o <<",">>
            \o key(<<"c", "o", "n", "t", "e", "n", "t">>) \o Quote(n.content)
            \o NewLine(ind) \o <<"}">>

\* lines 163, 172
JSONstringify(value) == StringifyNode(value, 0)

\* What JSON.parse returns: a string is a sequence of characters, an array a
\* sequence of values, an object a record, and the three other kinds are
\* tagged records.
JsNull == [t |-> "null"]
JsNumber(text) == [t |-> "number", text |-> text]
JsBoolean(b) == [t |-> "boolean", v |-> b]
SyntaxError == [ok |-> FALSE]
Parsed(val, pos) == [ok |-> TRUE, val |-> val, pos |-> pos]

IsWs(c) == c \in {" ", "\n", "\t", "\r"}
IsDigit(c) == c \in {"0", "1", "2", "3", "4", "5", "6", "7", "8", "9"}

RECURSIVE SkipWs(_, _)
SkipWs(t, i) == IF i <= Len(t) /\ IsWs(t[i]) THEN SkipWs(t, i + 1) ELSE i

RECURSIVE ParseChars(_, _, _)
\* the characters of a string literal whose opening quote is before position i
ParseChars(t, i, acc) ==
    IF i > Len(t) THEN SyntaxError
    ELSE IF t[i] = "\"" THEN Parsed(acc, i + 1)
    ELSE IF t[i] \in {"\n", "\t", "\r"} THEN SyntaxError
    ELSE IF t[i] = "\\"
    THEN IF i + 1 > Len(t) THEN SyntaxError
         ELSE CASE t[i + 1] \in {"\"", "\\", "/"} -> ParseChars(t, i + 2, Append(acc, t[i + 1]))
                [] t[i + 1] = "n" -> ParseChars(t, i + 2, Append(acc, "\n"))
                [] t[i + 1] = "t" -> ParseChars(t, i + 2, Append(acc, "\t"))
                [] t[i + 1] = "r" -> ParseChars(t, i + 2, Append(acc, "\r"))
                [] OTHER -> SyntaxError   \* \b \f \uXXXX: in no document of this model
    ELSE ParseChars(t, i + 1, Append(acc, t[i]))

RECURSIVE ParseDigits(_, _, _)
ParseDigits(t, i, acc) ==
    IF i <= Len(t) /\ IsDigit(t[i]) THEN ParseDigits(t, i + 1, Append(acc, t[i]))
    ELSE IF acc = <<>> THEN SyntaxError ELSE Parsed(JsNumber(acc), i)

\* the literal word at position i
ParseWord(t, i, word, val) ==
    IF i + Len(word) - 1 <= Len(t) /\ SubSeq(t, i, i + Len(word) - 1) = word
    THEN Parsed(val, i + Len(word)) ELSE SyntaxError

\* the property name a key spells
KeyName(k) ==
    CASE k = <<"f", "o", "l", "d", "e", "r", "N", "a", "m", "e">> -> "folderName"
      [] k = <<"i", "t", "e", "m", "s">> -> "items"
      [] k = <<"f", "i", "l", "e", "n", "a", "m", "e">> -> "filename"
      [] k = <<"f", "i", "l", "e", "E", "x", "t", "e", "n", "s", "i", "o", "n">> -> "fileExtension"
      [] k = <<"c", "o", "n", "t", "e", "n", "t">> -> "content"
      [] OTHER -> "otherKey"

\* the object a sequence of <<key, value>> members builds: a repeated key
\* keeps its last value
MkObject(members) ==
    [f \in {KeyName(members[i][1]) : i \in DOMAIN members} |->
        LET at == CHOOSE i \in DOMAIN members :
                     /\ KeyName(members[i][1]) = f
                     /\ \A j \in DOMAIN members : KeyName(members[j][1]) = f => j <= i
        IN members[at][2]]

RECURSIVE ParseValue(_, _)
RECURSIVE ParseElements(_, _, _)
RECURSIVE ParseMembers(_, _, _)

\* the elements of an array after "[" or ",": i is at the next element
ParseElements(t, i, acc) ==
    LET v == ParseValue(t, SkipWs(t, i))
    IN IF ~v.ok THEN SyntaxError
       ELSE LET j == SkipWs(t, v.pos)
            IN IF j > Len(t) THEN SyntaxError
               ELSE IF t[j] = "," THEN ParseElements(t, j + 1, Append(acc, v.val))
               ELSE IF t[j] = "]" THEN Parsed(Append(acc, v.val), j + 1)
               ELSE SyntaxError

\* the members of an object after "{" or ",": i is at the next key
ParseMembers(t, i, acc) ==
    LET k == SkipWs(t, i)
    IN IF k > Len(t) \/ t[k] # "\"" THEN SyntaxError
       ELSE LET key == ParseChars(t, k + 1, <<>>)
            IN IF ~key.ok THEN SyntaxError
               ELSE LET c == SkipWs(t, key.pos)
                    IN IF c > Len(t) \/ t[c] # ":" THEN SyntaxError
                       ELSE LET v == ParseValue(t, SkipWs(t, c + 1))
                            IN IF ~v.ok THEN SyntaxError
                               ELSE LET j == SkipWs(t, v.pos)
                                        acc2 == Append(acc, <<key.val, v.val>>)
                                    IN IF j > Len(t) THEN SyntaxError
                                       ELSE IF t[j] = "," THEN ParseMembers(t, j + 1, acc2)
                                       ELSE IF t[j] = "}" THEN Parsed(MkObject(acc2), j + 1)
                                       ELSE SyntaxError

\* one JSON value starting at position i (white space already skipped)
ParseValue(t, i) ==
    IF i > Len(t) THEN SyntaxError
    ELSE CASE t[i] = "{" ->
                LET j == SkipWs(t, i + 1)
                IN IF j <= Len(t) /\ t[j] = "}" THEN Parsed(MkObject(<<>>), j + 1)
                   ELSE ParseMembers(t, i + 1, <<>>)
           [] t[i] = "[" ->
                LET j == SkipWs(t, i + 1)
                IN IF j <= Len(t) /\ t[j] = "]" THEN Parsed(<<>>, j + 1)
                   ELSE ParseElements(t, i + 1, <<>>)
           [] t[i] = "\"" -> ParseChars(t, i + 1, <<>>)
           [] IsDigit(t[i]) -> ParseDigits(t, i, <<>>)
           [] t[i] = "n" -> ParseWord(t, i, <<"n", "u", "l", "l">>, JsNull)
           [] t[i] = "t" -> ParseWord(t, i, <<"t", "r", "u", "e">>, JsBoolean(TRUE))
           [] t[i] = "f" -> ParseWord(t, i, <<"f", "a", "l", "s", "e">>, JsBoolean(FALSE))
           [] OTHER -> SyntaxError

\* JSON.parse(text): the value, or a SyntaxError (ok = FALSE) when text is
\* not one JSON value surrounded by white space
JSONparse(text) ==
    LET v == ParseValue(text, SkipWs(text, 1))
    IN IF v.ok /\ SkipWs(text, v.pos) = Len(text) + 1 THEN v ELSE SyntaxError

\* ------------------------------------------------------------- persistence

NoDoc == [st |-> "missing", text |-> <<>>]
Text(text) == [st |-> "text", text |-> text]

\* fs.promises.writeFile(outputPath, text, "utf8") with the given result:
\* "ok", or a failure after the first half of the text was written ("partial")
WriteFile(d, text, result) ==
    IF result = "ok" THEN Text(text)
    ELSE Text(SubSeq(text, 1, Len(text) \div 2))

\* What one try of {mkdir; writeFile} does: "ok", "mkdir" (mkdir throws, the
\* document stays as it was) or "partial" (writeFile throws half way)
Phases == {"ok", "mkdir", "partial"}
\* the results of the two tries; the fallback is only run after a failure
SaveOutcomes ==
    {[normal |-> "ok", fallback |-> "ok"]}
    \cup [normal : Phases \ {"ok"}, fallback : Phases]

\* lines 157-165 / 169-174: one try
TryWrite(d, text, phase) ==
    IF phase = "mkdir" THEN d ELSE WriteFile(d, text, phase)

\* lines 158, 163, 172: what save computes before and between its writes:
\* the scanned tree, its text, and the text of EMPTY_TEMPLATE
SaveTexts(path, opts, w, empty) ==
    LET s == scanTemplateDirectory(path, opts, w)
        templateStructure == IF s.ref = "EMPTY_TEMPLATE" THEN empty ELSE s.folder
    IN [tree |-> templateStructure, w |-> s.w,
        text |-> JSONstringify(templateStructure),
        emptyText |-> JSONstringify(empty)]

\* a catch block that only logs: nothing is written after a failed try
saveTemplateStructureToJson_NoFallback(t, d, out) ==
    [status |-> "returned", doc |-> TryWrite(d, t.text, out.normal)]

\* lines 152-176: the try (mkdir, writeFile of the tree) and, when it throws,
\* the catch (mkdir, writeFile of EMPTY_TEMPLATE), whose own failure leaves
\* the function by an exception
saveTemplateStructureToJson(t, d, out) ==
    LET d1 == TryWrite(d, t.text, out.normal)
        d2 == TryWrite(d1, t.emptyText, out.fallback)
    IN IF out.normal = "ok"
       THEN [status |-> "returned", doc |-> d1]
       ELSE [status |-> IF out.fallback = "ok" THEN "returned" ELSE "raised", doc |-> d2]

\* lines 181-190
readTemplateStructureFromJson(d, readFails) ==
    IF readFails \/ d.st # "text" THEN [ref |-> "EMPTY_TEMPLATE"]
    ELSE LET p == JSONparse(d.text)
         IN IF ~p.ok THEN [ref |-> "EMPTY_TEMPLATE"]
            ELSE [ref |-> "fresh", value |-> p.val]

\* ------------------------------------------------------------ environment

FS1 ==
    Dir(<<>>, <<
        Dir(<<"t">>, <<
            File(<<"R", "E", "A", "D", "M", "E", ".", "M", "D">>, 2, <<"h", "i">>),
            Dir(<<"s", "r", "c">>, <<
                File(<<"b", "a">>, 1, <<"x">>),
                Dir(<<"t", "m", "p">>, << File(<<"k", ".", "t", "s">>, 1, <<"k">>) >>),
                Dir(<<"n", "o", "d", "e", "_", "m", "o", "d", "u", "l", "e", "s">>, << File(<<"m", ".", "j", "s">>, 3, <<"m", "m", "m">>) >>) >>),
            File(<<"a">>, 1048577, <<"z", "z">>),
            File(<<".", "e", "n", "v">>, 3, <<"K", "=", "1">>),
            File(<<"x", "~">>, 1, <<"y">>),
            Link(<<"l", "n", "k">>) >>),
        File(<<"f">>, 1, <<"f">>) >>)

FS2 ==
    Dir(<<>>, <<
        Dir(<<"t">>, <<
            File(<<"q", ".">>, 1048576, <<"\"", "\\", "\n">>),
            Dir(<<"e">>, <<>>),
            File(<<".", "b">>, 0, <<>>),
            File(<<"a", ".", "b", ".", "C">>, 2, <<"o", "k">>) >>) >>)

FileSystems == {FS1, FS2}

TemplatePaths == { <<"/", "t">>, <<"/", "t", "/">>, <<"/", "f">>, <<"/", "n", "o">> }

UserPattern(lit, global, id) == [re |-> "lit", lit |-> lit, global |-> global, id |-> id]

Configs ==
    { [ignoreFiles |-> <<>>, ignoreFolders |-> <<>>, ignorePatterns |-> <<>>],
      [ignoreFiles |-> << <<"R", "E", "A", "D", "M", "E", ".", "M", "D">> >>, ignoreFolders |-> << <<"t", "m", "p">> >>,
       ignorePatterns |-> << UserPattern(<<"a">>, TRUE, 1) >>, maxFileSize |-> 0],
      [ignoreFiles |-> <<>>, ignoreFolders |-> << <<"e">> >>,
       ignorePatterns |-> << UserPattern(<<".", "b">>, FALSE, 2) >>, maxFileSize |-> 1] }

\* the caller-owned RegExp objects that keep a lastIndex between calls
RegExpIds == {1}

RECURSIVE Operations(_, _, _)
\* The I/O operations at or below node.  With reachable = TRUE only those a
\* scan can attempt under some options: user options only add exclusions,
\* so what the default lists and expressions exclude is never touched, and
\* a fault there could not be observed.
Operations(node, path, reachable) ==
    IF node.type = "dir"
    THEN {Io("readdir", path)}
         \cup UNION {LET e == node.entries[i]
                     IN IF reachable /\ e.type = "dir" /\ Includes(defaultIgnoreFolders, e.name)
                        THEN {}
                        ELSE Operations(e, pathJoin(path, e.name), reachable)
                     : i \in DOMAIN node.entries}
    ELSE IF node.type = "file"
    THEN IF reachable /\ (\/ Includes(defaultIgnoreFiles, node.name)
                          \/ \E i \in DOMAIN defaultIgnorePatterns :
                                RegExpExec(defaultIgnorePatterns[i], node.name, 0) # -1)
         THEN {}
         ELSE {Io("stat", path), Io("readFile", path)}
    ELSE {}

FaultPoints(node, path) == Operations(node, path, TRUE)

\* the sets of operations that may fail while path is scanned in f
FaultSets(f, path) ==
    {F \in SUBSET ({Io("stat", path)} \cup FaultPoints(Lookup(f, Split(path)), path)) :
        Cardinality(F) <= MaxFaults}

\* documents another party may leave at the path: none, text that is no
\* JSON, and JSON that is no Folder
ForeignDocs ==
    {NoDoc, Text(<<"{", "\"", "f", "o", "l", "d", "e", "r", "N", "a", "m", "e">>), Text(<<"n", "u", "l", "l">>), Text(<<"4", "2">>)}

\* the item a caller pushes onto a Folder it was handed
PushedItem == TemplateFile(<<"x">>, <<>>, <<>>)

\* ----------------------------------------------------------------- actions

World == [fs |-> fs, faults |-> faults, regs |-> regs, io |-> {}]

Init ==
    /\ fs \in FileSystems
    /\ argPath \in TemplatePaths
    /\ argOptions \in Configs
    /\ faults \in FaultSets(fs, argPath)
    /\ doc = NoDoc
    /\ regs = [i \in RegExpIds |-> 0]
    /\ EMPTY_TEMPLATE = EmptyTemplateValue
    /\ handedOut = FALSE
    /\ last = [op |-> "none"]

\* one call of scanTemplateDirectory(argPath, argOptions)
Scan ==
    \E s \in {scanTemplateDirectory(argPath, argOptions, World)} :
       /\ regs' = s.w.regs
       /\ handedOut' = (handedOut \/ s.ref = "EMPTY_TEMPLATE")
       /\ last' = [op |-> "scan", regs0 |-> regs, ref |-> s.ref,
                   value |-> IF s.ref = "EMPTY_TEMPLATE" THEN EMPTY_TEMPLATE ELSE s.folder,
                   shared |-> handedOut /\ s.ref = "EMPTY_TEMPLATE",
                   io |-> s.w.io]
       /\ UNCHANGED <<fs, argPath, argOptions, faults, doc, EMPTY_TEMPLATE>>

\* one call of saveTemplateStructureToJson(argPath, outputPath, argOptions)
Save ==
    \E t \in {SaveTexts(argPath, argOptions, World, EMPTY_TEMPLATE)} :
    \E out \in SaveOutcomes :
    \E r \in {saveTemplateStructureToJson(t, doc, out)} :
       /\ doc' = r.doc
       /\ regs' = t.w.regs
       /\ last' = [op |-> "save", regs0 |-> regs, status |-> r.status,
                   tree |-> t.tree, out |-> out, io |-> t.w.io]
       /\ UNCHANGED <<fs, argPath, argOptions, faults, EMPTY_TEMPLATE, handedOut>>

\* one call of readTemplateStructureFromJson(inputPath)
Load ==
    \E readFails \in BOOLEAN :
    \E r \in {readTemplateStructureFromJson(doc, readFails)} :
       /\ handedOut' = (handedOut \/ r.ref = "EMPTY_TEMPLATE")
       /\ last' = [op |-> "load", readFails |-> readFails, ref |-> r.ref,
                   value |-> IF r.ref = "EMPTY_TEMPLATE" THEN EMPTY_TEMPLATE ELSE r.value,
                   shared |-> handedOut /\ r.ref = "EMPTY_TEMPLATE"]
       /\ UNCHANGED <<fs, argPath, argOptions, faults, doc, regs, EMPTY_TEMPLATE>>

\* another party replaces or removes the document
Corrupt ==
    \E d \in ForeignDocs :
        /\ doc' = d
        /\ last' = [op |-> "corrupt"]
        /\ UNCHANGED <<fs, argPath, argOptions, faults, regs, EMPTY_TEMPLATE, handedOut>>

\* The caller of the last scan or load pushes an item onto the Folder it was
\* handed.  A Folder built by that call is the caller's own; a reference to
\* EMPTY_TEMPLATE is the module's object.
Mutate ==
    /\ last.op \in {"scan", "load"}
    /\ IsFolder(last.value)
    /\ Len(last.value.items) < MaxPush
    /\ IF last.ref = "EMPTY_TEMPLATE"
       THEN EMPTY_TEMPLATE' = [EMPTY_TEMPLATE EXCEPT !.items = Append(@, PushedItem)]
       ELSE UNCHANGED EMPTY_TEMPLATE
    /\ last' = [op |-> "mutate", ref |-> last.ref]
    /\ UNCHANGED <<fs, argPath, argOptions, faults, doc, regs, handedOut>>

\* callers keep the trees they are handed immutable (the data model's lifecycle)
Next == Scan \/ Save \/ Load \/ Corrupt
Spec == Init /\ [][Next]_vars

\* callers may also mutate what they are handed
NextMut == Scan \/ Save \/ Load \/ Corrupt \/ Mutate
SpecMut == Init /\ [][NextMut]_vars

\* ------------------------------------------------- vocabulary of the claims

RootNode == Lookup(fs, Split(argPath))
\* stat(argPath) succeeds and reports a directory
RootScanned == RootNode.type = "dir" /\ Io("stat", argPath) \notin faults

IsPrefix(p, q) == Len(p) <= Len(q) /\ SubSeq(q, 1, Len(p)) = p
Range(s) == {s[i] : i \in DOMAIN s}

\* the last segment of a path
LastSegment(p) == Split(p)[Len(Split(p))]

UpperCase == <<"A", "B", "C", "D", "E", "F", "G", "H", "I", "J", "K", "L", "M", "N", "O", "P", "Q", "R", "S", "T", "U", "V", "W", "X", "Y", "Z">>
LowerCase == <<"a", "b", "c", "d", "e", "f", "g", "h", "i", "j", "k", "l", "m", "n", "o", "p", "q", "r", "s", "t", "u", "v", "w", "x", "y", "z">>
ToLowerCase(s) ==
    [i \in DOMAIN s |->
        IF \E k \in DOMAIN UpperCase : UpperCase[k] = s[i]
        THEN LowerCase[CHOOSE k \in DOMAIN UpperCase : UpperCase[k] = s[i]]
        ELSE s[i]]

RECURSIVE AllFiles(_)
\* the File nodes of a tree
AllFiles(n) ==
    IF IsFile(n) THEN {n} ELSE UNION {AllFiles(c) : c \in Range(n.items)}

RECURSIVE FolderPaths(_, _)
\* the paths (as segments) of the Folder nodes of a tree whose root sits at segs
FolderPaths(n, segs) ==
    IF IsFile(n) THEN {}
    ELSE {segs} \cup UNION {IF IsFolder(c) THEN FolderPaths(c, Append(segs, c.folderName))
                            ELSE {} : c \in Range(n.items)}

\* the expression p matches the name (wherever a search from the start finds it)
Matches(p, name) == RegExpExec(p, name, 0) # -1

\* the name is excluded by the default or the user's ignoreFiles / ignorePatterns
FileExcluded(name) ==
    \/ Includes(defaultIgnoreFiles, name)
    \/ Includes(argOptions.ignoreFiles, name)
    \/ \E p \in Range(defaultIgnorePatterns) \cup Range(argOptions.ignorePatterns) :
          Matches(p, name)

\* the directory's name is in the default or the user's ignoreFolders
FolderExcluded(name) ==
    Includes(defaultIgnoreFolders, name) \/ Includes(argOptions.ignoreFolders, name)

\* maxFileSize in effect: the supplied value, else 1 MiB
EffectiveMaxFileSize ==
    IF "maxFileSize" \in DOMAIN argOptions THEN argOptions.maxFileSize ELSE 1048576

\* The entries of a directory for which one scan pushed an item, in listing
\* order: a directory entry is listed (readdir) and a file entry is stat-ed
\* exactly when the loop reaches its push.
Kept(dirPath, io) ==
    SelectSeq(Lookup(fs, Split(dirPath)).entries,
              LAMBDA e : \/ e.type = "dir" /\ Io("readdir", pathJoin(dirPath, e.name)) \in io
                         \/ e.type = "file" /\ Io("stat", pathJoin(dirPath, e.name)) \in io)

RECURSIVE Pairs(_, _, _)
\* every entry below dirPath paired with the node the scan built for it
\* (entry Missing marks a Folder whose items do not line up with the entries)
Pairs(dirPath, folder, io) ==
    LET kept == Kept(dirPath, io)
    IN IF Len(kept) # Len(folder.items)
       THEN {[path |-> dirPath, entry |-> Missing, node |-> folder]}
       ELSE UNION {
              LET e == kept[i]
                  p == pathJoin(dirPath, e.name)
                  n == folder.items[i]
              IN {[path |-> p, entry |-> e, node |-> n]}
                 \cup (IF e.type = "dir" /\ IsFolder(n) THEN Pairs(p, n, io) ELSE {})
              : i \in DOMAIN kept}

\* the pairing is sound: items line up and every node has its entry's kind
Aligned(pairs) ==
    \A x \in pairs :
        /\ x.entry.type # "none"
        /\ x.entry.type = "file" <=> IsFile(x.node)
        /\ x.entry.type = "dir" <=> IsFolder(x.node)

\* the same scan in a world where no operation fails
HealedScan ==
    scanTemplateDirectory(argPath, argOptions,
                          [fs |-> fs, faults |-> {}, regs |-> last.regs0, io |-> {}])

RECURSIVE Absorbed(_, _, _)
\* The tree the scan of dirPath owes when every failure is absorbed locally:
\* folder is what the scan builds when nothing fails, and in it a directory
\* whose listing fails keeps no items, a file whose stat or attempted
\* readFile fails keeps no content, and everything else is untouched.
Absorbed(dirPath, folder, io0) ==
    IF Io("readdir", dirPath) \in faults THEN TemplateFolder(folder.folderName, <<>>)
    ELSE LET kept == Kept(dirPath, io0)
         IN TemplateFolder(folder.folderName,
              [i \in DOMAIN folder.items |->
                 LET e == kept[i]
                     p == pathJoin(dirPath, e.name)
                     n == folder.items[i]
                 IN IF e.type = "dir" THEN Absorbed(p, n, io0)
                    ELSE IF \/ Io("stat", p) \in faults
                            \/ Io("readFile", p) \in faults /\ Io("readFile", p) \in io0
                    THEN [n EXCEPT !.content = <<>>]
                    ELSE n])

\* the paths (as segments) of the directories below the scanned root
DirsBelowRoot ==
    {x.path : x \in {y \in Operations(RootNode, argPath, FALSE) : y.op = "readdir"}}
    \ {Split(argPath)}

\* ------------------------------------------------------------------ claims

\* what load returns for the document now at the path when readFile succeeds
Reloaded == readTemplateStructureFromJson(doc, FALSE)

\* C1 (as stated): save never surfaces an error and always leaves a parsable
\* document that is the scanned tree or the canonical empty tree, whatever
\* the outcomes of mkdir and writeFile on the normal and the fallback path.
C1_SaveNeverRaises ==
    last.op = "save" =>
        /\ last.status = "returned"
        /\ doc.st = "text"
        /\ JSONparse(doc.text).ok
        /\ JSONparse(doc.text).val \in {last.tree, EmptyTemplateValue}

\* C1 (amended): save raises exactly when a try on the normal path and then a
\* try on the fallback path both fail; whenever it returns, the document is
\* parsable and is the scanned tree or the canonical empty tree.
C1_SaveRaisesOnlyAfterFallback ==
    last.op = "save" =>
        /\ last.status = "raised" <=> (last.out.normal # "ok" /\ last.out.fallback # "ok")
        /\ last.status = "returned" =>
              /\ doc.st = "text"
              /\ \E p \in {JSONparse(doc.text)} :
                    /\ p.ok
                    /\ p.val \in {last.tree, EmptyTemplateValue}
                    /\ last.out.normal = "ok" => p.val = last.tree

\* C1 witness: the normal write failed half way, the fallback wrote the
\* empty tree over the partial text, and save returned
C1_Witness ==
    /\ last.op = "save"
    /\ last.out = [normal |-> "partial", fallback |-> "ok"]
    /\ last.status = "returned"
    /\ last.tree # EmptyTemplateValue
    /\ doc = Text(JSONstringify(EmptyTemplateValue))

\* C2 (as stated): load always returns a Folder: the Folder the document
\* encodes, and the canonical empty tree for a missing, unreadable or
\* unparsable document and for a document that encodes no Folder.
C2_LoadReturnsFolder ==
    last.op = "load" =>
        /\ IsFolder(last.value)
        /\ LET encodesFolder == /\ ~last.readFails
                                /\ doc.st = "text"
                                /\ JSONparse(doc.text).ok
                                /\ IsFolder(JSONparse(doc.text).val)
           IN last.value = IF encodesFolder THEN JSONparse(doc.text).val
                           ELSE EmptyTemplateValue

\* C7: after a save whose write of the scanned tree T succeeded, load returns
\* a tree equal to T (same nesting, same attributes on every node, same order
\* of items).
C7_RoundTrip ==
    (last.op = "save" /\ last.out.normal = "ok") =>
        Reloaded = [ref |-> "fresh", value |-> last.tree]

\* C7 witness: the saved tree nests a Folder, and a File in it has content
\* that the document must escape
C7_Witness ==
    /\ last.op = "save"
    /\ last.out.normal = "ok"
    /\ \E c \in Range(last.tree.items) : IsFolder(c)
    /\ \E f \in AllFiles(last.tree) : \E i \in DOMAIN f.content : f.content[i] \in {"\"", "\\", "\n"}

\* the entries below the scanned root paired with the nodes of the last scan
ScanPairs == Pairs(argPath, last.value, last.io)
\* a scan that went past the root check and built its own tree
ScanBuilt == last.op = "scan" /\ last.ref = "fresh"

\* C3 (as stated): for every maxFileSize in effect, 0 included, a retained
\* file whose size is greater gets the placeholder with its byte size and is
\* never read; a file that is not greater gets its real content.
C3_SizeBound ==
    ScanBuilt =>
        /\ Aligned(ScanPairs)
        /\ \A x \in ScanPairs :
              (x.entry.type = "file" /\ Io("stat", x.path) \notin faults) =>
                 IF x.entry.size > EffectiveMaxFileSize
                 THEN /\ x.node.content = TooLarge(x.entry.size)
                      /\ Io("readFile", x.path) \notin last.io
                 ELSE Io("readFile", x.path) \notin faults =>
                         x.node.content = x.entry.data

\* C4: a directory below the root whose name is in the default or the user's
\* ignoreFolders is pruned before descent: no operation is attempted on it
\* or inside it, and the tree has no Folder for it or for anything beneath it.
C4_PruneBeforeDescent ==
    ScanBuilt =>
        \A d \in DirsBelowRoot :
            FolderExcluded(d[Len(d)]) =>
                /\ \A e \in last.io : ~IsPrefix(d, e.path)
                /\ \A q \in FolderPaths(last.value, Split(argPath)) : ~IsPrefix(d, q)

\* C4 witness: the scan listed a directory two levels down that holds a
\* user-ignored directory with a file that would otherwise be retained
C4_Witness ==
    /\ ScanBuilt
    /\ \E d \in DirsBelowRoot :
          /\ Len(d) = Len(Split(argPath)) + 2
          /\ Includes(argOptions.ignoreFolders, d[Len(d)])
          /\ Io("readdir", <<"/", "t", "/", "s", "r", "c">>) \in last.io
          /\ SubSeq(d, 1, Len(d) - 1) = Split(<<"/", "t", "/", "s", "r", "c">>)
          /\ \E e \in Range(Lookup(fs, d).entries) : e.type = "file" /\ ~FileExcluded(e.name)

\* C5 (as stated): every single failure is absorbed where it happens: the
\* scan still returns its own Folder, a file whose stat or readFile fails is
\* a File node with content "", a directory whose listing fails is a Folder
\* with zero items, and every other node is what it is without the failure.
C5_FailuresAbsorbed ==
    (last.op = "scan" /\ RootScanned) =>
        /\ last.ref = "fresh"
        /\ last.value = Absorbed(argPath, HealedScan.folder, HealedScan.w.io)

C8_FileFilter ==
    ScanBuilt =>
        /\ Aligned(ScanPairs)
        /\ \A d \in DirsBelowRoot \cup {Split(argPath)} :
              (Io("readdir", d) \in last.io \ faults) =>
                 \A e \in Range(Lookup(fs, d).entries) :
                    e.type = "file" =>
                       ((\E x \in ScanPairs : x.entry = e /\ Split(x.path) = Append(d, e.name))
                          <=> ~FileExcluded(e.name))

\* C10 (as stated): every File node's fileExtension is lower-case and holds
\* no "."
C10_ExtensionForm ==
    ScanBuilt =>
        \A f \in AllFiles(last.value) :
            /\ \A i \in DOMAIN f.fileExtension : f.fileExtension[i] # "."
            /\ ToLowerCase(f.fileExtension) = f.fileExtension

\* C9 (as stated): no two invocations return the same object, and the
\* fallback returned is always a Folder with zero items.
C9_NoSharedResult ==
    last.op \in {"scan", "load"} =>
        /\ ~last.shared
        /\ last.ref = "EMPTY_TEMPLATE" => last.value.items = <<>>

====
